---- MODULE Spec2Model ----
(***************************************************************************)
(* Pricing core of the Amica bonding-curve chart scripts.                  *)
(*                                                                         *)
(*   persona-contracts/charts/bonding_curve.py   integer curve, 33x        *)
(*   persona-contracts/charts/66.py              integer curve, 33x / 66x  *)
(*   persona-contracts/charts/fee_reduction.py   quadratic fee discount    *)
(*   contracts/charts/bonding_curve.py           Decimal curve, buy loop   *)
(*                                                                         *)
(* Python integers are unbounded while TLC's are 32 bits wide, so every    *)
(* product that can leave that range (k, virtual_eth * PRECISION, the fee  *)
(* interpolation) is computed on magnitudes kept as little-endian          *)
(* sequences of base-1000 limbs.  Decimal values (context precision 50)    *)
(* are kept as exact fractions <<numerator, denominator>>, and the floats  *)
(* of the fee script as IEEE 754 doubles rounded operation by operation.   *)
(***************************************************************************)
EXTENDS Integers, Sequences, FiniteSets, TLC

(***************************************************************************)
(* Bounds of the model.                                                    *)
(***************************************************************************)
MaxTotal == 16      \* largest reserve_total / total_supply drawn
Overshoot == 3      \* how far past reserve_total a caller may pass reserve_sold
MaxAmount == 4      \* largest |amount_in| of a sell quote
MaxBuy == 8         \* largest amount_in of a buy quote
MaxPricing == 2     \* largest --pricing value
MaxIncrement == 3   \* largest increment of the buy loop
FeeWindow == 12     \* balances drawn this close to each fee threshold
FeeGrid == 40       \* grid points over the fee sweep
FracBits == 12      \* balances drawn down to 2^-FracBits from a fee threshold
SweepGrid == 4      \* grid steps over the curve scripts' sweep

(***************************************************************************)
(* Module-level constants of the persona scripts.                          *)
(***************************************************************************)
SELL_FEE_BPS == 10
BPS_DIVISOR == 10000

(***************************************************************************)
(* Python int arithmetic on magnitudes: <<>> is 0, limb i weighs 1000^i,   *)
(* the top limb is never 0.                                                *)
(***************************************************************************)
LimbBase == 10 * 100

RECURSIVE MFromNat(_)
MFromNat(n) ==
    IF n = 0 THEN <<>> ELSE <<n % LimbBase>> \o MFromNat(n \div LimbBase)

RECURSIVE MToNat(_)
MToNat(m) ==
    IF m = <<>> THEN 0 ELSE Head(m) + LimbBase * MToNat(Tail(m))

RECURSIVE MTrim(_)
MTrim(m) ==
    IF m # <<>> /\ m[Len(m)] = 0 THEN MTrim(SubSeq(m, 1, Len(m) - 1)) ELSE m

MLimb(m, i) ==
    IF i <= Len(m) THEN m[i] ELSE 0

RECURSIVE MCmpFrom(_, _, _)
MCmpFrom(a, b, i) ==
    IF i = 0 THEN 0
    ELSE IF a[i] < b[i] THEN -1
    ELSE IF a[i] > b[i] THEN 1
    ELSE MCmpFrom(a, b, i - 1)

\* -1, 0 or 1 as a < b, a = b, a > b
MCmp(a, b) ==
    IF Len(a) < Len(b) THEN -1
    ELSE IF Len(a) > Len(b) THEN 1
    ELSE MCmpFrom(a, b, Len(a))

RECURSIVE MAddFrom(_, _, _, _)
MAddFrom(a, b, i, carry) ==
    IF i > Len(a) /\ i > Len(b)
    THEN IF carry = 0 THEN <<>> ELSE <<carry>>
    ELSE LET x == MLimb(a, i) + MLimb(b, i) + carry
         IN  <<x % LimbBase>> \o MAddFrom(a, b, i + 1, x \div LimbBase)

MAdd(a, b) ==
    MAddFrom(a, b, 1, 0)

RECURSIVE MSubFrom(_, _, _, _)
MSubFrom(a, b, i, borrow) ==
    IF i > Len(a) THEN <<>>
    ELSE LET x == a[i] - MLimb(b, i) - borrow
         IN  IF x < 0
             THEN <<x + LimbBase>> \o MSubFrom(a, b, i + 1, 1)
             ELSE <<x>> \o MSubFrom(a, b, i + 1, 0)

\* a - b for a >= b
MSub(a, b) ==
    MTrim(MSubFrom(a, b, 1, 0))

RECURSIVE MMulNatFrom(_, _, _, _)
MMulNatFrom(a, n, i, carry) ==
    IF i > Len(a) THEN MFromNat(carry)
    ELSE LET x == a[i] * n + carry
         IN  <<x % LimbBase>> \o MMulNatFrom(a, n, i + 1, x \div LimbBase)

\* a * n for a native n >= 0 (n below 2^31 / 1000)
MMulNat(a, n) ==
    MTrim(MMulNatFrom(a, n, 1, 0))

RECURSIVE MMul(_, _)
MMul(a, b) ==
    IF a = <<>> \/ b = <<>> THEN <<>>
    ELSE MAdd(MMulNat(a, Head(b)),
              LET rest == MMul(a, Tail(b))
              IN  IF rest = <<>> THEN <<>> ELSE <<0>> \o rest)

RECURSIVE MDivModFrom(_, _, _, _)
\* long division from the top limb: <<quotient limbs (top first), remainder>>
MDivModFrom(a, d, i, rem) ==
    IF i = 0 THEN <<<<>>, rem>>
    ELSE LET x == rem * LimbBase + a[i]
             r == MDivModFrom(a, d, i - 1, x % d)
         IN  <<r[1] \o <<x \div d>>, r[2]>>

\* a // d for a native d > 0 (d below 2^31 / 1000)
MDivNat(a, d) ==
    MTrim(MDivModFrom(a, d, Len(a), 0)[1])

\* a % d for a native d > 0
MModNat(a, d) ==
    MDivModFrom(a, d, Len(a), 0)[2]

\* Python's a // d (floor) for a magnitude a and a native d # 0, as a native int
FloorDivMag(a, d) ==
    IF d > 0 THEN MToNat(MDivNat(a, d))
    ELSE IF MModNat(a, -d) = 0 THEN -MToNat(MDivNat(a, -d))
    ELSE -MToNat(MDivNat(a, -d)) - 1

\* Python's a // d (floor) on native ints, d # 0
FloorDiv(a, d) ==
    IF d > 0 THEN a \div d ELSE (-a) \div (-d)

(***************************************************************************)
(* Results: a returned value, or the exception the call raised.            *)
(***************************************************************************)
Ok(v) == [err |-> "none", val |-> v]
Raised(e) == [err |-> e, val |-> <<>>]

(***************************************************************************)
(* persona-contracts/charts/bonding_curve.py                               *)
(***************************************************************************)
\* 10**18, as a magnitude
PRECISION == <<0, 0, 0, 0, 0, 0, 1>>

Abs(n) == IF n < 0 THEN -n ELSE n

\* a variant with the buffer divisor of the 66x curve
virtual_buffer_7124(reserve_total) ==
    (reserve_total * 1000) \div 7124

\* b = T * 1000 / 4745
virtual_buffer(reserve_total) ==
    (reserve_total * 1000) \div 4745

\* a variant whose token reserve grows with reserve_sold
get_virtual_reserves_growing(reserve_sold, reserve_total) ==
    LET virtual_token == reserve_total + reserve_sold + virtual_buffer(reserve_total)
        initial_reserve == reserve_total + virtual_buffer(reserve_total)
        k == MMul(MFromNat(initial_reserve), MFromNat(initial_reserve))
    IN  IF virtual_token = 0 THEN Raised("ZeroDivisionError")
        ELSE Ok(<<virtual_token, FloorDivMag(k, virtual_token)>>)

\* a variant that rounds virtual_eth up instead of truncating it
get_virtual_reserves_rounding_up(reserve_sold, reserve_total) ==
    LET virtual_token == reserve_total - reserve_sold + virtual_buffer(reserve_total)
        initial_reserve == reserve_total + virtual_buffer(reserve_total)
        k == MMul(MFromNat(initial_reserve), MFromNat(initial_reserve))
    IN  IF virtual_token = 0 THEN Raised("ZeroDivisionError")
        ELSE Ok(<<virtual_token, FloorDivMag(k, virtual_token) + 1>>)

get_virtual_reserves(reserve_sold, reserve_total) ==
    LET virtual_token == reserve_total - reserve_sold + virtual_buffer(reserve_total)
        initial_reserve == reserve_total + virtual_buffer(reserve_total)
        k == MMul(MFromNat(initial_reserve), MFromNat(initial_reserve))
    IN  IF virtual_token = 0 THEN Raised("ZeroDivisionError")
        ELSE Ok(<<virtual_token, FloorDivMag(k, virtual_token)>>)

\* a variant with the ratio inverted: (virtual_token * PRECISION) // virtual_eth
fixed_point_price_inverted(virtual_token, virtual_eth) ==
    MDivNat(MMulNat(PRECISION, Abs(virtual_token)), Abs(virtual_eth))

\* (virtual_eth * PRECISION) // virtual_token; the two reserves have the same
\* sign, so the quotient is that of their absolute values
fixed_point_price(virtual_token, virtual_eth) ==
    MDivNat(MMulNat(PRECISION, Abs(virtual_eth)), Abs(virtual_token))

\* returns price / PRECISION, kept as the fraction <<price, PRECISION>>
get_current_price(reserve_sold, reserve_total) ==
    LET r == get_virtual_reserves(reserve_sold, reserve_total)
    IN  IF r.err # "none" THEN r
        ELSE Ok(<<fixed_point_price(r.val[1], r.val[2]), PRECISION>>)

\* a variant that prices the range by the swap formula on the starting
\* reserves, virtual_eth * amount // (virtual_token - amount), instead of
\* the difference of the two virtual_eth values
calculate_cost_between_by_swap(from_tokens, to_tokens, total_supply) ==
    IF from_tokens >= to_tokens THEN Ok(0)
    ELSE LET s == get_virtual_reserves(from_tokens, total_supply)
             e == get_virtual_reserves(to_tokens, total_supply)
         IN  IF s.err # "none" THEN s
             ELSE IF e.err # "none" THEN e
             ELSE Ok(FloorDiv(s.val[2] * (to_tokens - from_tokens), e.val[1]))

\* a variant without the early return for from_tokens >= to_tokens
calculate_cost_between_unguarded(from_tokens, to_tokens, total_supply) ==
    LET s == get_virtual_reserves(from_tokens, total_supply)
        e == get_virtual_reserves(to_tokens, total_supply)
    IN  IF s.err # "none" THEN s
        ELSE IF e.err # "none" THEN e
        ELSE Ok(e.val[2] - s.val[2])

calculate_cost_between(from_tokens, to_tokens, total_supply) ==
    IF from_tokens >= to_tokens THEN Ok(0)
    ELSE LET s == get_virtual_reserves(from_tokens, total_supply)
             e == get_virtual_reserves(to_tokens, total_supply)
         IN  IF s.err # "none" THEN s
             ELSE IF e.err # "none" THEN e
             ELSE Ok(e.val[2] - s.val[2])

\* the part of the sell quote after the reserves are known
sell_from_reserves(amount_in, virtual_token, virtual_eth) ==
    LET new_virtual_token == virtual_token + amount_in
        k == MMulNat(MFromNat(Abs(virtual_token)), Abs(virtual_eth))
    IN  IF new_virtual_token = 0 THEN Raised("ZeroDivisionError")
        ELSE LET new_virtual_eth == FloorDivMag(k, new_virtual_token)
                 eth_before_fee == virtual_eth - new_virtual_eth
                 fee == FloorDiv(eth_before_fee * SELL_FEE_BPS, BPS_DIVISOR)
             IN  Ok(eth_before_fee - fee)

calculate_amount_out_for_sell(amount_in, reserve_sold, reserve_total) ==
    LET r == get_virtual_reserves(reserve_sold, reserve_total)
    IN  IF r.err # "none" THEN r
        ELSE sell_from_reserves(amount_in, r.val[1], r.val[2])

(***************************************************************************)
(* persona-contracts/charts/66.py: the same curve with the buffer divisor  *)
(* derived from a target multiplier.                                       *)
(***************************************************************************)
RECURSIVE ISqrtBetween(_, _, _)
\* the largest r in lo..hi with r * r <= n (hi below 46341)
ISqrtBetween(n, lo, hi) ==
    IF lo = hi THEN lo
    ELSE LET mid == (lo + hi + 1) \div 2
         IN  IF mid * mid <= n THEN ISqrtBetween(n, mid, hi)
             ELSE ISqrtBetween(n, lo, mid - 1)

\* int((np.sqrt(target_multiplier) - 1) * 1000): the float product lies within
\* 1e-11 of 1000 * sqrt(M) - 1000, which is an integer only for a perfect
\* square M (where the float is exact), so the truncation is
\* floor(sqrt(10^6 * M)) - 1000.
divisor_scaled(target_multiplier) ==
    ISqrtBetween(1000000 * target_multiplier, 0, 46340) - 1000

virtual_buffer_66(reserve_total, target_multiplier) ==
    (reserve_total * 1000) \div divisor_scaled(target_multiplier)

get_virtual_reserves_66(reserve_sold, reserve_total, target_multiplier) ==
    LET vb == virtual_buffer_66(reserve_total, target_multiplier)
        virtual_token == reserve_total - reserve_sold + vb
        initial_reserve == reserve_total + vb
        k == MMul(MFromNat(initial_reserve), MFromNat(initial_reserve))
    IN  IF virtual_token = 0 THEN Raised("ZeroDivisionError")
        ELSE Ok(<<virtual_token, FloorDivMag(k, virtual_token)>>)

get_current_price_66(reserve_sold, reserve_total, target_multiplier) ==
    LET r == get_virtual_reserves_66(reserve_sold, reserve_total, target_multiplier)
    IN  IF r.err # "none" THEN r
        ELSE Ok(<<fixed_point_price(r.val[1], r.val[2]), PRECISION>>)

calculate_cost_between_66(from_tokens, to_tokens, total_supply, target_multiplier) ==
    IF from_tokens >= to_tokens THEN Ok(0)
    ELSE LET s == get_virtual_reserves_66(from_tokens, total_supply, target_multiplier)
             e == get_virtual_reserves_66(to_tokens, total_supply, target_multiplier)
         IN  IF s.err # "none" THEN s
             ELSE IF e.err # "none" THEN e
             ELSE Ok(e.val[2] - s.val[2])

calculate_amount_out_for_sell_66(amount_in, reserve_sold, reserve_total, target_multiplier) ==
    LET r == get_virtual_reserves_66(reserve_sold, reserve_total, target_multiplier)
    IN  IF r.err # "none" THEN r
        ELSE sell_from_reserves(amount_in, r.val[1], r.val[2])

(***************************************************************************)
(* Decimal arithmetic (contracts/charts/bonding_curve.py sets the context  *)
(* precision to 50 digits): exact fractions <<numerator, denominator>> in  *)
(* lowest terms with a positive denominator.                               *)
(***************************************************************************)
RECURSIVE GCD(_, _)
GCD(a, b) ==
    IF b = 0 THEN a ELSE GCD(b, a % b)

\* The operators below bind their operands once (x ranges over the one
\* pair of them), so that an operand is evaluated once however often the
\* body reads it.

\* n / d in lowest terms, d # 0
Q(n, d) ==
    CHOOSE q \in {LET g == GCD(Abs(x[1]), Abs(x[2]))
                  IN  IF x[2] > 0 THEN <<x[1] \div g, x[2] \div g>>
                      ELSE <<(-x[1]) \div g, (-x[2]) \div g>> : x \in {<<n, d>>}} : TRUE

QInt(n) == <<n, 1>>

QAdd(a, b) ==
    CHOOSE q \in {Q(x[1][1] * x[2][2] + x[2][1] * x[1][2], x[1][2] * x[2][2]) :
                  x \in {<<a, b>>}} : TRUE

QSub(a, b) ==
    CHOOSE q \in {Q(x[1][1] * x[2][2] - x[2][1] * x[1][2], x[1][2] * x[2][2]) :
                  x \in {<<a, b>>}} : TRUE

QMul(a, b) ==
    CHOOSE q \in {Q(x[1][1] * x[2][1], x[1][2] * x[2][2]) : x \in {<<a, b>>}} : TRUE

\* a / b, b # 0
QDiv(a, b) ==
    CHOOSE q \in {Q(x[1][1] * x[2][2], x[1][2] * x[2][1]) : x \in {<<a, b>>}} : TRUE

QLess(a, b) ==
    \E x \in {<<a, b>>} : x[1][1] * x[2][2] < x[2][1] * x[1][2]

QLeq(a, b) ==
    \E x \in {<<a, b>>} : x[1][1] * x[2][2] <= x[2][1] * x[1][2]

QMin(a, b) ==
    CHOOSE q \in {IF QLess(x[2], x[1]) THEN x[2] ELSE x[1] : x \in {<<a, b>>}} : TRUE

\* Decimal's a // b: the quotient truncated towards zero, b # 0
QTruncDiv(a, b) ==
    CHOOSE t \in {IF q[1] >= 0 THEN QInt(q[1] \div q[2]) ELSE QInt(-((-q[1]) \div q[2])) :
                  q \in {QDiv(a, b)}} : TRUE

(***************************************************************************)
(* contracts/charts/bonding_curve.py: class BondingCurve.                  *)
(***************************************************************************)
\* main() passes pricing * int(1e18) and __init__ divides it by 1e18 again, so
\* the field is the --pricing integer; total_supply is fixed by __init__ at
\* 333_333_333 * 1e18 and is drawn here from small totals, in token units.
BondingCurve(curve_multiplier, pricing, supply) ==
    [curve_multiplier |-> QInt(curve_multiplier),
     pricing_multiplier |-> QInt(pricing),
     total_supply |-> QInt(supply)]

bc_get_virtual_reserves(self, reserve_sold, reserve_total) ==
    LET vb == QDiv(QMul(reserve_total, QInt(1000)), self.curve_multiplier)
        virtual_token == QAdd(QSub(reserve_total, reserve_sold), vb)
        initial_reserve == QAdd(reserve_total, vb)
        k == QMul(initial_reserve, initial_reserve)
    IN  IF virtual_token[1] = 0 THEN Raised("DivisionByZero")
        ELSE Ok(<<virtual_token, QDiv(k, virtual_token)>>)

bc_get_current_price(self, reserve_sold) ==
    LET r == bc_get_virtual_reserves(self, reserve_sold, self.total_supply)
    IN  IF r.err # "none" THEN r
        ELSE Ok(QMul(QDiv(r.val[2], r.val[1]), self.pricing_multiplier))

\* a variant that does not cap the output at the tokens remaining
calculate_amount_out_uncapped(self, amount_in, reserve_sold) ==
    IF QLeq(self.total_supply, reserve_sold) THEN Ok(QInt(0))
    ELSE LET r == bc_get_virtual_reserves(self, reserve_sold, self.total_supply)
         IN  IF r.err # "none" THEN r
             ELSE LET adjusted_amount_in == QMul(amount_in, self.pricing_multiplier)
                      numerator == QMul(r.val[1], adjusted_amount_in)
                      denominator == QAdd(r.val[2], adjusted_amount_in)
                  IN  IF denominator[1] = 0 THEN Raised("DivisionByZero")
                      ELSE Ok(QDiv(numerator, denominator))

\* a variant without the early return on an exhausted curve
calculate_amount_out_unguarded(self, amount_in, reserve_sold) ==
    LET r == bc_get_virtual_reserves(self, reserve_sold, self.total_supply)
    IN  IF r.err # "none" THEN r
        ELSE LET adjusted_amount_in == QMul(amount_in, self.pricing_multiplier)
                 numerator == QMul(r.val[1], adjusted_amount_in)
                 denominator == QAdd(r.val[2], adjusted_amount_in)
                 tokens_remaining == QSub(self.total_supply, reserve_sold)
             IN  IF denominator[1] = 0 THEN Raised("DivisionByZero")
                 ELSE Ok(QMin(QDiv(numerator, denominator), tokens_remaining))

calculate_amount_out(self, amount_in, reserve_sold) ==
    IF QLeq(self.total_supply, reserve_sold) THEN Ok(QInt(0))
    ELSE LET r == bc_get_virtual_reserves(self, reserve_sold, self.total_supply)
         IN  IF r.err # "none" THEN r
             ELSE LET adjusted_amount_in == QMul(amount_in, self.pricing_multiplier)
                      numerator == QMul(r.val[1], adjusted_amount_in)
                      denominator == QAdd(r.val[2], adjusted_amount_in)
                      tokens_remaining == QSub(self.total_supply, reserve_sold)
                  IN  IF denominator[1] = 0 THEN Raised("DivisionByZero")
                      ELSE Ok(QMin(QDiv(numerator, denominator), tokens_remaining))

(***************************************************************************)
(* persona bonding_curve.py's sell quote called with Decimal operands (the *)
(* tokens a BondingCurve buy returned): int - Decimal, int // Decimal and  *)
(* Decimal // int all give Decimals.                                       *)
(***************************************************************************)
sell_of_decimal(amount_in, reserve_sold, reserve_total) ==
    LET vb == virtual_buffer(reserve_total)
        virtual_token == QAdd(QSub(QInt(reserve_total), reserve_sold), QInt(vb))
        initial_reserve == reserve_total + vb
        new_virtual_token == QAdd(virtual_token, amount_in)
    IN  IF virtual_token[1] = 0 \/ new_virtual_token[1] = 0
        THEN Raised("DivisionByZero")
        ELSE LET virtual_eth == QTruncDiv(QInt(initial_reserve * initial_reserve), virtual_token)
                 k == QMul(virtual_token, virtual_eth)
                 new_virtual_eth == QTruncDiv(k, new_virtual_token)
                 eth_before_fee == QSub(virtual_eth, new_virtual_eth)
                 fee == QTruncDiv(QMul(eth_before_fee, QInt(SELL_FEE_BPS)), QInt(BPS_DIVISOR))
             IN  Ok(QSub(eth_before_fee, fee))

(***************************************************************************)
(* IEEE 754 doubles, the floats fee_reduction.py computes in: a double is  *)
(* [sgn, man, exp] with value sgn * man * 2^exp, sgn in {-1, 0, 1}, man a  *)
(* magnitude below 2^53 (or 2^53 itself) and exp a native int.  Every      *)
(* operation computes the exact result and rounds it to 53 significant     *)
(* bits, ties to even.  No value of the fee computation is subnormal or    *)
(* overflows.                                                              *)
(***************************************************************************)
Sgn(n) == IF n < 0 THEN -1 ELSE IF n = 0 THEN 0 ELSE 1

RECURSIVE Pow2(_)
Pow2(j) ==
    IF j = 0 THEN 1 ELSE 2 * Pow2(j - 1)

RECURSIVE MPow2(_)
\* 2^k as a magnitude
MPow2(k) ==
    IF k < 20 THEN MFromNat(Pow2(k))
    ELSE MMulNat(CHOOSE q \in {MPow2(k - 20)} : TRUE, 1048576)

RECURSIVE NatBitLen(_)
NatBitLen(n) ==
    IF n = 0 THEN 0 ELSE 1 + NatBitLen(n \div 2)

RECURSIVE MBitLen(_)
\* the number of bits of a magnitude
MBitLen(m) ==
    IF Len(m) <= 2 THEN NatBitLen(MToNat(m))
    ELSE 10 + MBitLen(CHOOSE q \in {MDivNat(m, 1024)} : TRUE)

RECURSIVE MShr(_, _)
\* m // 2^k
MShr(m, k) ==
    IF k < 20 THEN MDivNat(m, Pow2(k))
    ELSE MShr(CHOOSE q \in {MDivNat(m, 1048576)} : TRUE, k - 20)

MOdd(m) ==
    m # <<>> /\ m[1] % 2 = 1

\* sgn * (man + s) * 2^exp rounded to a double, where s is 0, or lies
\* strictly between 0 and 1 when sticky (man then has 55 bits or more)
DRound(sgn, man, exp, sticky) ==
    IF man = <<>> THEN [sgn |-> 0, man |-> <<>>, exp |-> 0]
    ELSE LET shift == MBitLen(man) - 53
         IN  IF shift <= 0 THEN [sgn |-> sgn, man |-> man, exp |-> exp]
             ELSE LET q == MShr(man, shift)
                      rest == MSub(man, MMul(q, MPow2(shift)))
                      c == MCmp(rest, MPow2(shift - 1))
                      up == c > 0 \/ (c = 0 /\ (sticky \/ MOdd(q)))
                  IN  [sgn |-> sgn,
                       man |-> IF up THEN MAdd(q, <<1>>) ELSE q,
                       exp |-> exp + shift]

\* float(n) for a native int n
DInt(n) == [sgn |-> Sgn(n), man |-> MFromNat(Abs(n)), exp |-> 0]

\* the mantissa of a at the exponent e <= a.exp
DAt(a, e) ==
    IF a.exp = e THEN a.man ELSE MMul(a.man, MPow2(a.exp - e))

\* -1, 0 or 1 as a < b, a = b, a > b
DCmp(a, b) ==
    IF a.sgn # b.sgn THEN (IF a.sgn < b.sgn THEN -1 ELSE 1)
    ELSE IF a.sgn = 0 THEN 0
    ELSE LET e == IF a.exp < b.exp THEN a.exp ELSE b.exp
         IN  a.sgn * MCmp(DAt(a, e), DAt(b, e))

\* a - b
DSub(a, b) ==
    IF b.sgn = 0 THEN a
    ELSE IF a.sgn = 0 THEN [sgn |-> -b.sgn, man |-> b.man, exp |-> b.exp]
    ELSE LET e == IF a.exp < b.exp THEN a.exp ELSE b.exp
             x == DAt(a, e)
             y == DAt(b, e)
             c == MCmp(x, y)
         IN  IF a.sgn # b.sgn THEN DRound(a.sgn, MAdd(x, y), e, FALSE)
             ELSE IF c = 0 THEN DInt(0)
             ELSE IF c > 0 THEN DRound(a.sgn, MSub(x, y), e, FALSE)
             ELSE DRound(-a.sgn, MSub(y, x), e, FALSE)

\* a * b
DMul(a, b) ==
    DRound(a.sgn * b.sgn, MMul(a.man, b.man), a.exp + b.exp, FALSE)

\* a / float(n) for a native int n > 0: 76 more bits of a give a quotient of
\* 55 bits or more, and the remainder of the division is the sticky part
DDivInt(a, n) ==
    LET scaled == MMul(a.man, MPow2(76))
    IN  DRound(a.sgn, MDivNat(scaled, n), a.exp - 76, MModNat(scaled, n) # 0)

\* n / d for native n and d > 0, as the exact fraction [sgn, num, den]
FInt(n, d) == [sgn |-> Sgn(n), num |-> MFromNat(Abs(n)), den |-> MFromNat(d)]

\* the exact value of a double, as a fraction
DToFrac(a) ==
    [sgn |-> a.sgn,
     num |-> IF a.exp >= 0 THEN MMul(a.man, MPow2(a.exp)) ELSE a.man,
     den |-> IF a.exp >= 0 THEN <<1>> ELSE MPow2(-a.exp)]

\* -1, 0 or 1 as f < g, f = g, f > g
FCmp(f, g) ==
    IF f.sgn # g.sgn THEN (IF f.sgn < g.sgn THEN -1 ELSE 1)
    ELSE f.sgn * MCmp(MMul(f.num, g.den), MMul(g.num, f.den))

(***************************************************************************)
(* persona-contracts/charts/fee_reduction.py.  amica_balance is a float    *)
(* (the script sweeps np.linspace values; an int balance yields the same   *)
(* values, its difference being exact and int / int correctly rounded);    *)
(* the fee returned is a double.                                           *)
(***************************************************************************)
MIN_AMICA_FOR_REDUCTION == 1000
MAX_AMICA_FOR_REDUCTION == 1000000
BASE_FEE == 10000
MAX_DISCOUNTED_FEE == 0

\* a variant that interpolates upwards from the discounted fee
calculate_fee_rising(amica_balance) ==
    IF DCmp(amica_balance, DInt(MIN_AMICA_FOR_REDUCTION)) < 0
    THEN DDivInt(DInt(BASE_FEE), 10000)
    ELSE IF DCmp(amica_balance, DInt(MAX_AMICA_FOR_REDUCTION)) >= 0
    THEN DDivInt(DInt(MAX_DISCOUNTED_FEE), 10000)
    ELSE LET range_val == MAX_AMICA_FOR_REDUCTION - MIN_AMICA_FOR_REDUCTION
             user_position == DSub(amica_balance, DInt(MIN_AMICA_FOR_REDUCTION))
             progress == DDivInt(user_position, range_val)
             quadratic_progress == DMul(progress, progress)
             fee_range == BASE_FEE - MAX_DISCOUNTED_FEE
             fee_reduction == DMul(DInt(fee_range), quadratic_progress)
             fee == DSub(fee_reduction, DInt(-MAX_DISCOUNTED_FEE))
         IN  DDivInt(fee, 10000)

\* a variant that measures progress from 0 instead of from the lower threshold
calculate_fee_from_zero(amica_balance) ==
    IF DCmp(amica_balance, DInt(MIN_AMICA_FOR_REDUCTION)) < 0
    THEN DDivInt(DInt(BASE_FEE), 10000)
    ELSE IF DCmp(amica_balance, DInt(MAX_AMICA_FOR_REDUCTION)) >= 0
    THEN DDivInt(DInt(MAX_DISCOUNTED_FEE), 10000)
    ELSE LET range_val == MAX_AMICA_FOR_REDUCTION - MIN_AMICA_FOR_REDUCTION
             progress == DDivInt(amica_balance, range_val)
             quadratic_progress == DMul(progress, progress)
             fee_range == BASE_FEE - MAX_DISCOUNTED_FEE
             fee_reduction == DMul(DInt(fee_range), quadratic_progress)
             fee == DSub(DInt(BASE_FEE), fee_reduction)
         IN  DDivInt(fee, 10000)

\* progress ** 2 is the correctly rounded progress * progress
calculate_fee(amica_balance) ==
    IF DCmp(amica_balance, DInt(MIN_AMICA_FOR_REDUCTION)) < 0
    THEN DDivInt(DInt(BASE_FEE), 10000)
    ELSE IF DCmp(amica_balance, DInt(MAX_AMICA_FOR_REDUCTION)) >= 0
    THEN DDivInt(DInt(MAX_DISCOUNTED_FEE), 10000)
    ELSE LET range_val == MAX_AMICA_FOR_REDUCTION - MIN_AMICA_FOR_REDUCTION
             user_position == DSub(amica_balance, DInt(MIN_AMICA_FOR_REDUCTION))
             progress == DDivInt(user_position, range_val)
             quadratic_progress == DMul(progress, progress)
             fee_range == BASE_FEE - MAX_DISCOUNTED_FEE
             fee_reduction == DMul(DInt(fee_range), quadratic_progress)
             fee == DSub(DInt(BASE_FEE), fee_reduction)
         IN  DDivInt(fee, 10000)

(***************************************************************************)
(* The script that runs and the curve it draws.  bonding_curve.py draws    *)
(* the 33x curve; 66.py draws one curve per multiplier in [33, 66].        *)
(***************************************************************************)
Curves ==
    {[script |-> "bonding_curve.py", target_multiplier |-> 33]}
    \cup {[script |-> "66.py", target_multiplier |-> m] : m \in {33, 66}}

FeeScript == [script |-> "fee_reduction.py", target_multiplier |-> 0]

\* whole balances around the thresholds and the ends of the script's sweep
\* np.linspace(0, MAX_AMICA_FOR_REDUCTION * 1.1, 1000), and a grid over it
WholeBalances ==
    (0..FeeWindow)
    \cup ((MIN_AMICA_FOR_REDUCTION - FeeWindow)..(MIN_AMICA_FOR_REDUCTION + FeeWindow))
    \cup ((MAX_AMICA_FOR_REDUCTION - FeeWindow)..(MAX_AMICA_FOR_REDUCTION + FeeWindow))
    \cup {1100000 - i : i \in 0..FeeWindow}
    \cup {(1100000 \div FeeGrid) * i : i \in 0..FeeGrid}


\* the balances a call is made with: the whole ones, and the doubles
\* MIN_AMICA_FOR_REDUCTION + 2^-j and MAX_AMICA_FOR_REDUCTION - 2^-j just
\* inside the reduction range
Balances ==
    {DInt(n) : n \in WholeBalances}
    \cup {[sgn |-> 1, man |-> MFromNat(MIN_AMICA_FOR_REDUCTION * Pow2(j) + 1), exp |-> -j] :
            j \in 1..FracBits}
    \cup {[sgn |-> 1,
            man |-> MSub(MMulNat(MFromNat(MAX_AMICA_FOR_REDUCTION), Pow2(j)), <<1>>),
            exp |-> -j] : j \in 1..FracBits}

Contracts == [script |-> "contracts/bonding_curve.py", target_multiplier |-> 0]

BufferOf(c, reserve_total) ==
    IF c.script = "66.py"
    THEN virtual_buffer_66(reserve_total, c.target_multiplier)
    ELSE virtual_buffer(reserve_total)

ReservesOf(c, reserve_sold, reserve_total) ==
    IF c.script = "66.py"
    THEN get_virtual_reserves_66(reserve_sold, reserve_total, c.target_multiplier)
    ELSE get_virtual_reserves(reserve_sold, reserve_total)

PriceOf(c, reserve_sold, reserve_total) ==
    IF c.script = "66.py"
    THEN get_current_price_66(reserve_sold, reserve_total, c.target_multiplier)
    ELSE get_current_price(reserve_sold, reserve_total)

CostOf(c, from_tokens, to_tokens, total_supply) ==
    IF c.script = "66.py"
    THEN calculate_cost_between_66(from_tokens, to_tokens, total_supply, c.target_multiplier)
    ELSE calculate_cost_between(from_tokens, to_tokens, total_supply)

SellOf(c, amount_in, reserve_sold, reserve_total) ==
    IF c.script = "66.py"
    THEN calculate_amount_out_for_sell_66(amount_in, reserve_sold, reserve_total, c.target_multiplier)
    ELSE calculate_amount_out_for_sell(amount_in, reserve_sold, reserve_total)

\* reserve totals (the scripts use 1_000_000); the smallest have a virtual
\* buffer of 0
Totals == 1..MaxTotal

\* the scripts' own curve: total_supply = 1_000_000, swept from 0 to
\* total_supply; the calls are taken at the integer points of a grid over it
total_supply == 1000000

SweepPoints ==
    {(total_supply \div SweepGrid) * i : i \in 0..SweepGrid} \cup {total_supply}

\* --curve values: the virtual buffer is total_supply * 1000 / curve_multiplier
CurveMultipliers == {500, 1000, 2000, 5000}

\* --pricing is any int, 0 included
BondingCurves ==
    {BondingCurve(c, p, t) : c \in CurveMultipliers, p \in 0..MaxPricing, t \in 1..MaxTotal}

NoCurve == BondingCurve(1000, 1, 1)

(***************************************************************************)
(* State.  curve: the script that runs (and its target multiplier).        *)
(* call: the call in progress, <<operation, arguments, result>>, read as   *)
(* op, args and ret.                                                       *)
(* bc, increment, total_spent, total_bought, percentages, pc:               *)
(* simulate_bonding_curve's object and locals; percentages holds one entry *)
(* per completed buy (the Decimal its float() is taken of); pc is "calls"  *)
(* while the engine is used call by call, "loop" in the buy loop and       *)
(* "done" after it.                                                        *)
(***************************************************************************)
VARIABLES curve, call, bc, increment, total_spent, total_bought,
          percentages, pc

op == call[1]
args == call[2]
ret == call[3]

vars == <<curve, call, bc, increment, total_spent, total_bought,
          percentages, pc>>

sim == <<bc, increment, total_spent, total_bought, percentages, pc>>

NoArgs == [none |-> 0]

Init ==
    /\ call = <<"none", NoArgs, Ok(0)>>
    /\ total_spent = QInt(0)
    /\ total_bought = QInt(0)
    /\ percentages = <<>>
    /\ \/ /\ curve \in Curves \cup {FeeScript}
          /\ bc = NoCurve
          /\ increment = 0
          /\ pc = "calls"
       \/ /\ curve = Contracts
          /\ bc \in BondingCurves
          /\ \/ increment = 0 /\ pc = "calls"
             \/ increment \in 1..MaxIncrement /\ pc = "loop"

Persona == pc = "calls" /\ op = "none" /\ curve \in Curves

GetVirtualReserves ==
    \E t \in Totals : \E sold \in 0..(t + Overshoot) :
        /\ Persona
        /\ call' = <<"get_virtual_reserves",
                     [reserve_sold |-> sold, reserve_total |-> t],
                     ReservesOf(curve, sold, t)>>
        /\ UNCHANGED <<curve, sim>>

GetCurrentPrice ==
    \E t \in Totals : \E sold \in 0..t :
        /\ Persona
        /\ call' = <<"get_current_price",
                     [reserve_sold |-> sold, reserve_total |-> t],
                     PriceOf(curve, sold, t)>>
        /\ UNCHANGED <<curve, sim>>

CalculateCostBetween ==
    \E t \in Totals : \E from \in 0..(t + Overshoot), to \in 0..(t + Overshoot) :
        /\ Persona
        /\ call' = <<"calculate_cost_between",
                     [from_tokens |-> from, to_tokens |-> to, total_supply |-> t],
                     CostOf(curve, from, to, t)>>
        /\ UNCHANGED <<curve, sim>>

CalculateAmountOutForSell ==
    \E t \in Totals : \E sold \in 0..t, amount \in (-MaxAmount)..MaxAmount :
        /\ Persona
        /\ call' = <<"calculate_amount_out_for_sell",
                     [amount_in |-> amount, reserve_sold |-> sold, reserve_total |-> t],
                     SellOf(curve, amount, sold, t)>>
        /\ UNCHANGED <<curve, sim>>

\* prices = [get_current_price(sold, total_supply) for sold in tokens_sold]
Prices ==
    \E sold \in SweepPoints :
        /\ Persona
        /\ call' = <<"prices",
                     [reserve_sold |-> sold, reserve_total |-> total_supply],
                     PriceOf(curve, sold, total_supply)>>
        /\ UNCHANGED <<curve, sim>>

CalculateFee ==
    \E balance \in Balances :
        /\ pc = "calls" /\ op = "none" /\ curve = FeeScript
        /\ call' = <<"calculate_fee",
                     [amica_balance |-> balance],
                     Ok(calculate_fee(balance))>>
        /\ UNCHANGED <<curve, sim>>

\* a buy quote of the BondingCurve object
CalculateAmountOut ==
    \E amount \in 0..MaxBuy, sold \in 0..(bc.total_supply[1] + Overshoot) :
        /\ pc = "calls" /\ op = "none" /\ curve = Contracts
        /\ call' = <<"calculate_amount_out",
                     [amount_in |-> amount, reserve_sold |-> sold],
                     calculate_amount_out(bc, QInt(amount), QInt(sold))>>
        /\ UNCHANGED <<curve, sim>>

\* the spot price of the BondingCurve object
BcGetCurrentPrice ==
    \E sold \in 0..bc.total_supply[1] :
        /\ pc = "calls" /\ op = "none" /\ curve = Contracts
        /\ call' = <<"bc_get_current_price",
                     [amount_in |-> 0, reserve_sold |-> sold],
                     bc_get_current_price(bc, QInt(sold))>>
        /\ UNCHANGED <<curve, sim>>

\* the integer virtual buffer of the sell side is the buy side's
SameCurve(self) ==
    QDiv(QMul(self.total_supply, QInt(1000)), self.curve_multiplier)
        = QInt(virtual_buffer(self.total_supply[1]))

RECURSIVE StripFactor(_, _)
StripFactor(n, f) ==
    IF n % f = 0 THEN StripFactor(n \div f, f) ELSE n

\* q has a finite decimal expansion, so Decimal holds it exactly
Terminating(q) ==
    StripFactor(StripFactor(q[2], 2), 5) = 1

\* a buy quote, then a sell quote for the tokens bought at the state the buy
\* leaves: <<token_out, eth_out>>
round_trip(self, amount_in, reserve_sold) ==
    LET b == calculate_amount_out(self, amount_in, reserve_sold)
    IN  IF b.err # "none" THEN b
        ELSE LET s == sell_of_decimal(b.val, QAdd(reserve_sold, b.val), self.total_supply[1])
             IN  IF s.err # "none" THEN s ELSE Ok(<<b.val, s.val>>)

RoundTrip ==
    \E amount \in 1..MaxBuy, sold \in 0..(bc.total_supply[1] - 1) :
        /\ pc = "calls" /\ op = "none" /\ curve = Contracts
        /\ virtual_buffer(bc.total_supply[1]) > 0
        /\ SameCurve(bc)
        \* Decimal rounds a quotient without a finite expansion to 50 digits, and
        \* the sell side's // can then differ by a unit from the exact fraction's:
        \* the round trip is taken where the bought amount is exact
        /\ LET b == calculate_amount_out(bc, QInt(amount), QInt(sold))
           IN  b.err = "none" /\ Terminating(b.val)
        /\ call' = <<"round_trip",
                     [amount_in |-> amount, reserve_sold |-> sold],
                     round_trip(bc, QInt(amount), QInt(sold))>>
        /\ UNCHANGED <<curve, sim>>

\* the call has returned; the caller is ready for the next one
Return ==
    /\ op # "none"
    /\ call' = <<"none", NoArgs, Ok(0)>>
    /\ UNCHANGED <<curve, sim>>

\* a variant of the loop body that never adds the tokens received
SimulateStepWithoutProgress ==
    /\ pc = "loop"
    /\ UNCHANGED <<curve, call, bc, increment, total_bought>>
    /\ IF QLess(total_bought, QMul(bc.total_supply, Q(85, 100)))
       THEN LET tokens_received == calculate_amount_out(bc, QInt(increment), total_bought)
            IN  IF tokens_received.err # "none"
                THEN pc' = tokens_received.err /\ UNCHANGED <<total_spent, percentages>>
                ELSE IF tokens_received.val = QInt(0)
                THEN pc' = "done" /\ UNCHANGED <<total_spent, percentages>>
                ELSE /\ total_spent' = QAdd(total_spent, QInt(increment))
                     /\ percentages' = Append(percentages,
                            QMul(QDiv(total_bought, bc.total_supply), QInt(100)))
                     /\ pc' = IF QLeq(QMul(bc.total_supply, Q(849, 1000)), total_bought)
                              THEN "done" ELSE "loop"
       ELSE pc' = "done" /\ UNCHANGED <<total_spent, percentages>>

\* one pass of simulate_bonding_curve's while loop.  Decimal(0.85) and
\* Decimal(0.849) are the doubles nearest 0.85 and 0.849, below them by less
\* than 3e-17: no fraction this model reaches lies in between, so the tests
\* are those against 85/100 and 849/1000.
SimulateStep ==
    /\ pc = "loop"
    /\ UNCHANGED <<curve, call, bc, increment>>
    /\ IF QLess(total_bought, QMul(bc.total_supply, Q(85, 100)))
       THEN LET tokens_received == calculate_amount_out(bc, QInt(increment), total_bought)
            IN  IF tokens_received.err # "none"
                THEN pc' = tokens_received.err
                     /\ UNCHANGED <<total_spent, total_bought, percentages>>
                ELSE IF tokens_received.val = QInt(0)
                THEN pc' = "done" /\ UNCHANGED <<total_spent, total_bought, percentages>>
                ELSE /\ total_spent' = QAdd(total_spent, QInt(increment))
                     /\ total_bought' = QAdd(total_bought, tokens_received.val)
                     /\ percentages' = Append(percentages,
                            QMul(QDiv(total_bought', bc.total_supply), QInt(100)))
                     /\ pc' = IF QLeq(QMul(bc.total_supply, Q(849, 1000)), total_bought')
                              THEN "done" ELSE "loop"
       ELSE pc' = "done" /\ UNCHANGED <<total_spent, total_bought, percentages>>

Next ==
    \/ Return
    \/ GetVirtualReserves
    \/ GetCurrentPrice
    \/ CalculateCostBetween
    \/ CalculateAmountOutForSell
    \/ Prices
    \/ CalculateFee
    \/ CalculateAmountOut
    \/ BcGetCurrentPrice
    \/ RoundTrip
    \/ SimulateStep

Spec == Init /\ [][Next]_vars

\* simulate_bonding_curve runs its loop without waiting on anything: a pass
\* that can be made is made
FairSpec == Spec /\ WF_vars(SimulateStep)

(***************************************************************************)
(* Properties.                                                             *)
(***************************************************************************)
\* k = (reserveTotal + virtualBuffer)^2 of the curve in use
InitialK(c, reserve_total) ==
    LET initial_reserve == reserve_total + BufferOf(c, reserve_total)
    IN  MMul(MFromNat(initial_reserve), MFromNat(initial_reserve))

\* virtualToken * virtualEth of a returned pair of positive reserves
ProductOf(pair) ==
    MMulNat(MFromNat(pair[1]), pair[2])

ReservesInRange ==
    /\ op = "get_virtual_reserves"
    /\ args.reserve_sold <= args.reserve_total
    /\ BufferOf(curve, args.reserve_total) > 0

\* C1 as claimed: for 0 <= reserveSold <= reserveTotal (and a positive virtual
\* buffer) the returned pair has k - 1 <= virtualToken * virtualEth <= k.
C1_ProductWithinOneOfK ==
    ReservesInRange =>
        /\ ret.err = "none"
        /\ MCmp(ProductOf(ret.val), InitialK(curve, args.reserve_total)) <= 0
        /\ MCmp(MAdd(ProductOf(ret.val), <<1>>), InitialK(curve, args.reserve_total)) >= 0

\* C1 as amended: for 0 <= reserveSold <= reserveTotal and a positive virtual
\* buffer the returned pair has
\* k - virtualToken < virtualToken * virtualEth <= k: the truncating division
\* loses less than one unit of virtualEth, which is less than virtualToken
\* (not at most 1) in the product.
C1_ProductWithinTokenOfK ==
    ReservesInRange =>
        /\ ret.err = "none"
        /\ MCmp(ProductOf(ret.val), InitialK(curve, args.reserve_total)) <= 0
        /\ MCmp(MAdd(ProductOf(ret.val), MFromNat(ret.val[1])),
                InitialK(curve, args.reserve_total)) > 0

\* a pair whose product is 2 or more below k
C1_Witness ==
    /\ ReservesInRange
    /\ ret.err = "none"
    /\ MCmp(MAdd(ProductOf(ret.val), <<2>>), InitialK(curve, args.reserve_total)) <= 0

\* p <= q for fractions <<numerator, denominator>> of magnitudes
FracLeq(p, q) ==
    MCmp(MMul(p[1], q[2]), MMul(q[1], p[2])) <= 0

C4_RoundTripLosesEth ==
    op = "round_trip" =>
        /\ ret.err = "none"
        /\ QLess(ret.val[2], QInt(args.amount_in))

\* C5: reserveSold stays within 0..totalSupply when the caller adds each
\* tokenOut to it, as the buy loop does with total_bought: every tokenOut is
\* at least 0 and at most totalSupply - reserveSold.
C5_ReserveSoldInRange ==
    /\ curve = Contracts =>
        /\ QLeq(QInt(0), total_bought)
        /\ QLeq(total_bought, bc.total_supply)
    /\ (op = "calculate_amount_out" /\ args.reserve_sold <= bc.total_supply[1]) =>
        /\ ret.err = "none"
        /\ QLeq(QInt(0), ret.val)
        /\ QLeq(ret.val, QSub(bc.total_supply, QInt(args.reserve_sold)))

\* the loop has made two buys or more and the last one took all that remained
C5_Witness ==
    /\ pc = "done"
    /\ total_bought = bc.total_supply
    /\ QLess(QInt(increment), total_spent)

\* C6 as claimed: virtual reserves asked for with reserveSold > reserveTotal
\* are refused with a DomainError; no pair is returned.
C6_OversoldRejected ==
    (op = "get_virtual_reserves" /\ args.reserve_sold > args.reserve_total) =>
        ret.err = "DomainError"

\* C7 as claimed: a sell quote with reserveSold = 0 or amountIn <= 0 raises a
\* DomainError instead of returning an ETH amount.
C7_SellPreconditionRejected ==
    (/\ op = "calculate_amount_out_for_sell"
     /\ (args.reserve_sold = 0 \/ args.amount_in <= 0)) =>
        ret.err = "DomainError"

\* C8: on an exhausted curve (reserveSold >= totalSupply) the buy quote is 0
\* for every amountIn, and nothing is raised.
C8_ExhaustedQuoteIsZero ==
    (op = "calculate_amount_out" /\ args.reserve_sold >= bc.total_supply[1]) =>
        ret = Ok(QInt(0))

\* a positive amount offered past the end of the curve
C8_Witness ==
    /\ op = "calculate_amount_out"
    /\ args.reserve_sold > bc.total_supply[1]
    /\ args.amount_in > 0
    /\ ret = Ok(QInt(0))

C10_FeeBoundaries ==
    op = "calculate_fee" =>
        /\ DCmp(args.amica_balance, DInt(MIN_AMICA_FOR_REDUCTION)) <= 0 =>
              FCmp(DToFrac(ret.val), FInt(BASE_FEE, 10000)) = 0
        /\ DCmp(args.amica_balance, DInt(MAX_AMICA_FOR_REDUCTION)) >= 0 =>
              FCmp(DToFrac(ret.val), FInt(MAX_DISCOUNTED_FEE, 10000)) = 0
        /\ FCmp(DToFrac(ret.val), FInt(BASE_FEE, 10000)) <= 0
        /\ FCmp(DToFrac(ret.val), FInt(MAX_DISCOUNTED_FEE, 10000)) >= 0

\* the fee at the lower threshold itself, where the interpolation starts
C10_Witness ==
    /\ op = "calculate_fee"
    /\ args.amica_balance = DInt(MIN_AMICA_FOR_REDUCTION)
    /\ FCmp(DToFrac(ret.val), FInt(BASE_FEE, 10000)) = 0

\* C11: the fee never rises with the balance: for balances x <= y, below,
\* inside or above the reduction range, calculate_fee(y) <= calculate_fee(x).
C11_FeeNonIncreasing ==
    op = "calculate_fee" =>
        \A y \in Balances :
            DCmp(args.amica_balance, y) <= 0 => DCmp(calculate_fee(y), ret.val) <= 0

\* a balance inside the range pays less than one below the range and more
\* than one further inside
C11_Witness ==
    /\ op = "calculate_fee"
    /\ args.amica_balance = DInt(MIN_AMICA_FOR_REDUCTION + 1)
    /\ DCmp(ret.val, calculate_fee(DInt(MIN_AMICA_FOR_REDUCTION - 1))) < 0
    /\ DCmp(calculate_fee(DInt(MAX_AMICA_FOR_REDUCTION - 1)), ret.val) < 0

\* C12: for every balance strictly between MIN_AMICA_FOR_REDUCTION and
\* MAX_AMICA_FOR_REDUCTION the fee is strictly between the fully discounted
\* fee and the base fee.
C12_FeeStrictlyInside ==
    (/\ op = "calculate_fee"
     /\ DCmp(args.amica_balance, DInt(MIN_AMICA_FOR_REDUCTION)) > 0
     /\ DCmp(args.amica_balance, DInt(MAX_AMICA_FOR_REDUCTION)) < 0) =>
        /\ FCmp(DToFrac(ret.val), FInt(MAX_DISCOUNTED_FEE, 10000)) > 0
        /\ FCmp(DToFrac(ret.val), FInt(BASE_FEE, 10000)) < 0

C16_SellWithinCost ==
    (/\ op = "calculate_amount_out_for_sell"
     /\ 0 < args.amount_in
     /\ args.amount_in <= args.reserve_sold
     /\ BufferOf(curve, args.reserve_total) > 0) =>
        /\ ret.err = "none"
        /\ ret.val <= CostOf(curve, args.reserve_sold - args.amount_in,
                             args.reserve_sold, args.reserve_total).val

\* C14: on the 33x curve of bonding_curve.py with total_supply = 1_000_000,
\* at reserveSold = 0 the two reserves both are reserveTotal + virtualBuffer
\* and the spot price is exactly PRECISION / PRECISION = 1; at
\* reserveSold = total_supply the price is at least 33 and less than 34
\* times the starting price.
C14_Scenario33x ==
    (op = "prices" /\ curve.script = "bonding_curve.py") =>
        /\ ret.err = "none"
        /\ args.reserve_sold = 0 =>
              /\ get_virtual_reserves(0, total_supply)
                    = Ok(<<total_supply + virtual_buffer(total_supply),
                           total_supply + virtual_buffer(total_supply)>>)
              /\ ret.val = <<PRECISION, PRECISION>>
        /\ args.reserve_sold = total_supply =>
              LET start == get_current_price(0, total_supply).val[1]
              IN  /\ MCmp(MMulNat(start, 33), ret.val[1]) <= 0
                  /\ MCmp(ret.val[1], MMulNat(start, 34)) < 0

\* the price at the end of the script's curve, strictly above 33
C14_Witness ==
    /\ op = "prices"
    /\ curve.script = "bonding_curve.py"
    /\ args.reserve_sold = total_supply
    /\ ret.err = "none"
    /\ MCmp(MMulNat(PRECISION, 33), ret.val[1]) < 0

\* C15 as claimed: at target multiplier 33 the target-multiplier mode of
\* 66.py gives the same virtual buffer, the same reserves and the same price
\* as bonding_curve.py, for every reserveTotal and reserveSold <= reserveTotal.
C15_SameCurveAt33 ==
    (curve.script = "66.py" /\ curve.target_multiplier = 33) =>
        /\ (op = "get_virtual_reserves" /\ args.reserve_sold <= args.reserve_total) =>
              ret = get_virtual_reserves(args.reserve_sold, args.reserve_total)
        /\ op = "prices" =>
              /\ BufferOf(curve, args.reserve_total) = virtual_buffer(args.reserve_total)
              /\ ReservesOf(curve, args.reserve_sold, args.reserve_total)
                    = get_virtual_reserves(args.reserve_sold, args.reserve_total)
              /\ ret = get_current_price(args.reserve_sold, args.reserve_total)

InLoop == curve = Contracts /\ pc \in {"loop", "done"}

\* C17: the buy loop always terminates: every pass that stays in the loop
\* strictly increases total_bought, total_bought never decreases, total_spent
\* is the number of completed buys times the increment, the loop ends only
\* at or past 84.9% of the supply or on a zero quote, and it always ends.
C17_BuyLoopTerminates ==
    /\ [](InLoop => total_spent = QMul(QInt(increment), QInt(Len(percentages))))
    /\ [][QLeq(total_bought, total_bought')]_vars
    /\ [][(pc = "loop" /\ pc' = "loop") => QLess(total_bought, total_bought')]_vars
    /\ [](pc = "done" =>
            \/ QLeq(QMul(bc.total_supply, Q(849, 1000)), total_bought)
            \/ calculate_amount_out(bc, QInt(increment), total_bought) = Ok(QInt(0)))
    /\ (pc = "loop") ~> (pc = "done")

\* a loop that ended past the threshold after three buys or more
C17_Witness ==
    /\ pc = "done"
    /\ Len(percentages) >= 3
    /\ QLeq(QMul(bc.total_supply, Q(849, 1000)), total_bought)
    /\ total_spent = QInt(increment * Len(percentages))
====
